---- MODULE Spec2Model ----
(***************************************************************************)
(* Model of calc_hex_2.py: the reconciliation of a set of files against a  *)
(* catalog table (hash -> filename).                                       *)
(*                                                                         *)
(*   collect_all_files  enumerates the files under the configured roots;   *)
(*   hash_file          runs in a pool of MAX_WORKERS threads;             *)
(*   process_files      consumes the finished futures in completion order  *)
(*                      and, for each, runs SELECT by hash, SELECT by      *)
(*                      filename, UPDATE, and a commit every BATCH         *)
(*                      updates, then a final commit.                      *)
(*                                                                         *)
(* A hash is a number of Hashes, a file name a number of Names, and NULL   *)
(* is the SQL NULL of the filename column.  The table is a function from   *)
(* the hashes that have a row to the row's filename (hash is the table's   *)
(* key).  catalog is the table as the open transaction of cur sees it,     *)
(* durable the table as of the last commit.                                *)
(***************************************************************************)
EXTENDS Integers, Sequences, FiniteSets, TLC

VARIABLES
    directories,  \* config["directories"]: the roots, each with its tree on disk
    dirIdx,       \* collect_all_files: index of the next root of the for loop
    files,        \* the list collect_all_files builds / process_files receives
    status,       \* per file: "new", "submitted" (future pending), "done", "consumed"
    pc,           \* position of the main thread
    future,       \* index of the future the loop body is working on (0: none)
    catalog,      \* the table as seen by cur (uncommitted writes included)
    durable,      \* the table as of the last successful commit
    cat0,         \* the table when the current run started
    updates,      \* the local counter of process_files
    commits,      \* number of successful conn.commit() calls of the current run
    outcome,      \* per file: which branch of the loop body it left through
    ops,          \* per file: the statements executed for it
    storeErr,     \* a statement or commit has raised
    run,          \* 1 for the first invocation of the script, 2 for a rerun
    fifo,         \* the scenario's schedule: TRUE when the futures finish and are
                  \* consumed in submission order, FALSE for any order
    connOpen,     \* conn and cur are open
    uniqueCol,    \* the filename column has the UNIQUE constraint
    peer          \* a second process running the script on the same table:
                  \* its position, its file and whether it has an UPDATE pending

vars == <<directories, dirIdx, files, status, pc, future, catalog, durable, cat0,
          updates, commits, outcome, ops, storeErr, run, fifo, connOpen, uniqueCol,
          peer>>

-----------------------------------------------------------------------------
(* Bounds and program constants *)

MaxFiles == 3        \* files per run in the exhaustive scenarios
MaxDirs == 3         \* configured roots
MaxTree == 1         \* entries under one root
BigRun == 250        \* eligible files of the largest batch scenario
BATCH == 100         \* updates % 100
MAX_WORKERS == 8     \* ThreadPoolExecutor(max_workers=8)

NULL == 0
None == <<>>

Hashes == {1, 2}             \* digests the files of a small scenario can have
Names == {1, 2}              \* base names the files of a small scenario can have
RowHashes == {1, 2, 3}       \* hashes that can have a row (3: content of no file)

File(h, n, r) == [hash |-> h, name |-> n, readable |-> r]

-----------------------------------------------------------------------------
(* Mutant: the failed read still returns a pair *)
hash_file_always(file) ==
    <<file.hash, file.name>>

(* hash_file: (md5 of the content, base name), or None when the read fails *)
hash_file(file) ==
    IF file.readable THEN <<file.hash, file.name>> ELSE None

(* SELECT filename FROM t WHERE hash = h; fetchone(): the row, or None *)
SelectFilenameByHash(cat, h) ==
    IF h \in DOMAIN cat THEN <<cat[h]>> ELSE None

(* Mutant: the test of the row is lost, every hash is taken as unnamed *)
HashHasFilenameNever(row) ==
    FALSE

(* "row and row[0] is not None" *)
HashHasFilename(row) ==
    row # None /\ row[1] # NULL

(* Mutant: the lookup by filename loses its WHERE value and finds any named row *)
FilenameInUseAny(cat, n) ==
    \E h \in DOMAIN cat : cat[h] # NULL

(* Mutant: the lookup by filename never finds a row *)
FilenameInUseNever(cat, n) ==
    FALSE

(* SELECT 1 FROM t WHERE filename = n; fetchone() is truthy *)
FilenameInUse(cat, n) ==
    \E h \in DOMAIN cat : cat[h] = n

(* Mutant: the statement inserts the row when the hash has none *)
UpdateFilenameUpsert(cat, n, h) ==
    [k \in DOMAIN cat \cup {h} |-> IF k = h THEN n ELSE cat[k]]

(* UPDATE t SET filename = n WHERE hash = h *)
UpdateFilename(cat, n, h) ==
    [k \in DOMAIN cat |-> IF k = h THEN n ELSE cat[k]]

FileIds == 1..Len(files)

AllConsumed == \A f \in DOMAIN status : status[f] = "consumed"

(* if updates % 100 == 0 *)
AtBatchBoundaryEarly(n) ==
    (n + 1) % BATCH = 0

(* Mutant: the test never holds, no commit inside the loop *)
AtBatchBoundaryNever(n) ==
    FALSE

AtBatchBoundary(n) ==
    n % BATCH = 0

(* Mutant: the exception is caught and the loop goes on with the next future *)
RaiseSwallowed ==
    /\ pc' = "loop"
    /\ storeErr' = TRUE

(* The exception of a failed statement leaves process_files *)
Raise ==
    /\ pc' = "failed"
    /\ storeErr' = TRUE

-----------------------------------------------------------------------------
(* Initial states *)

NoDup(cat) ==
    \A h, k \in DOMAIN cat : (h # k /\ cat[h] # NULL) => cat[h] # cat[k]

Catalogs ==
    {c \in UNION {[D -> Names \cup {NULL}] : D \in SUBSET RowHashes} :
        /\ NoDup(c)
        /\ (3 \in DOMAIN c => c[3] = 1)}

FileKinds ==
    {File(h, n, TRUE) : h \in Hashes, n \in Names} \cup {File(1, n, FALSE) : n \in Names}

Rank(file) == (IF file.readable THEN 0 ELSE 100) + 10 * file.hash + file.name

FileLists ==
    {s \in UNION {[1..n -> FileKinds] : n \in 0..MaxFiles} :
        \A i \in 1..(Len(s) - 1) : Rank(s[i]) <= Rank(s[i + 1])}

InitRun(fs, cat) ==
    /\ files = fs
    /\ status = [f \in 1..Len(fs) |-> "new"]
    /\ pc = "start"
    /\ future = 0
    /\ catalog = cat
    /\ durable = cat
    /\ cat0 = cat
    /\ updates = 0
    /\ commits = 0
    /\ outcome = [f \in 1..Len(fs) |-> "pending"]
    /\ ops = [f \in 1..Len(fs) |-> {}]
    /\ storeErr = FALSE
    /\ run = 1
    /\ connOpen = TRUE

NoPeer == [pc |-> "off", hash |-> 0, name |-> 0, wrote |-> FALSE]

(* The script runs alone *)
Alone == peer = NoPeer

(* process_files called on any list of at most MaxFiles files with the
   contents of Hashes and the names of Names (the list is kept in rank order:
   with at most MAX_WORKERS files the submission order decides nothing).  The
   filename column existed before the script ran, without the constraint: the
   DO block adds UNIQUE only with the column.  (Alone, the script does the same
   with the constraint: an UPDATE that follows the two lookups of the same
   transaction is never refused by it.) *)
InitSmall ==
    /\ directories = <<>>
    /\ dirIdx = 0
    /\ fifo = FALSE
    /\ Alone
    /\ uniqueCol = FALSE
    /\ \E fs \in FileLists, cat \in Catalogs : InitRun(fs, cat)

(* MaxFiles files with pairwise different contents and names, file i with
   hash i and name i; the row of hash i is absent, has no filename, has the
   name of file i or has the name of the next file *)
DistinctFiles == [i \in 1..MaxFiles |-> File(i, i, TRUE)]

DistinctCatalogs ==
    {c \in UNION {[D -> (1..MaxFiles) \cup {NULL}] : D \in SUBSET (1..MaxFiles)} :
        /\ NoDup(c)
        /\ \A h \in DOMAIN c : c[h] \in {NULL, h, (h % MaxFiles) + 1}}

InitDistinct ==
    /\ directories = <<>>
    /\ dirIdx = 0
    /\ fifo = FALSE
    /\ Alone
    /\ uniqueCol \in BOOLEAN
    /\ \E cat \in DistinctCatalogs : InitRun(DistinctFiles, cat)

Init == InitSmall \/ InitDistinct

-----------------------------------------------------------------------------
(* process_files *)

(* updates = 0; every file is submitted to the pool *)
Submit ==
    /\ pc = "start"
    /\ status' = [f \in FileIds |-> "submitted"]
    /\ updates' = 0
    /\ pc' = "loop"
    /\ UNCHANGED <<directories, dirIdx, files, future, catalog, durable, cat0,
                   commits, outcome, ops, storeErr, run, fifo,
                   connOpen, uniqueCol, peer>>

(* A pool thread finishes hash_file(files[f]).  The pool runs the futures in
   submission order, MAX_WORKERS at a time. *)
Worker(f) ==
    /\ status[f] = "submitted"
    /\ IF fifo /\ f > 1 THEN status[f - 1] = "consumed" ELSE TRUE
    /\ Cardinality({g \in 1..(f - 1) : status[g] = "submitted"}) < MAX_WORKERS
    /\ status' = [status EXCEPT ![f] = "done"]
    /\ UNCHANGED <<directories, dirIdx, files, pc, future, catalog, durable, cat0,
                   updates, commits, outcome, ops, storeErr, run, fifo,
                   connOpen, uniqueCol, peer>>

(* Mutant: a finished future is taken up while the statements of another
   file are still under way (the loop body run per future, not in the loop) *)
ConsumeAnytime(f) ==
    /\ pc \in {"loop", "select_name", "update"}
    /\ status[f] = "done"
    /\ status' = [status EXCEPT ![f] = "consumed"]
    /\ IF hash_file(files[f]) = None
         THEN /\ outcome' = [outcome EXCEPT ![f] = "read_failed"]
              /\ UNCHANGED <<pc, future>>
         ELSE /\ pc' = "select_hash"
              /\ future' = f
              /\ UNCHANGED outcome
    /\ UNCHANGED <<directories, dirIdx, files, catalog, durable, cat0,
                   updates, commits, ops, storeErr, run, fifo,
                   connOpen, uniqueCol, peer>>

(* Mutant: as_completed yields a future that it has yielded before *)
ConsumeAgain(f) ==
    /\ pc = "loop"
    /\ status[f] \in {"done", "consumed"}
    /\ status' = [status EXCEPT ![f] = "consumed"]
    /\ IF hash_file(files[f]) = None
         THEN /\ outcome' = [outcome EXCEPT ![f] = "read_failed"]
              /\ UNCHANGED <<pc, future>>
         ELSE /\ pc' = "select_hash"
              /\ future' = f
              /\ UNCHANGED outcome
    /\ UNCHANGED <<directories, dirIdx, files, catalog, durable, cat0,
                   updates, commits, ops, storeErr, run, fifo,
                   connOpen, uniqueCol, peer>>

(* as_completed yields a finished future; result = future.result() *)
Consume(f) ==
    /\ pc = "loop"
    /\ status[f] = "done"
    /\ status' = [status EXCEPT ![f] = "consumed"]
    /\ IF hash_file(files[f]) = None
         THEN /\ outcome' = [outcome EXCEPT ![f] = "read_failed"]
              /\ UNCHANGED <<pc, future>>
         ELSE /\ pc' = "select_hash"
              /\ future' = f
              /\ UNCHANGED outcome
    /\ UNCHANGED <<directories, dirIdx, files, catalog, durable, cat0,
                   updates, commits, ops, storeErr, run, fifo,
                   connOpen, uniqueCol, peer>>

(* SELECT filename ... WHERE hash = file_hash *)
SelectHash ==
    /\ pc = "select_hash"
    /\ ops' = [ops EXCEPT ![future] = @ \cup {"select_hash"}]
    /\ \E ok \in BOOLEAN :
         IF ok
           THEN LET row == SelectFilenameByHash(catalog, hash_file(files[future])[1])
                IN  IF HashHasFilename(row)
                      THEN /\ outcome' = [outcome EXCEPT ![future] = "dup_hash"]
                           /\ pc' = "loop"
                           /\ future' = 0
                           /\ UNCHANGED storeErr
                      ELSE /\ pc' = "select_name"
                           /\ UNCHANGED <<outcome, future, storeErr>>
           ELSE /\ Raise
                /\ UNCHANGED <<outcome, future>>
    /\ UNCHANGED <<directories, dirIdx, files, status, catalog, durable, cat0,
                   updates, commits, run, fifo,
                   connOpen, uniqueCol, peer>>

(* SELECT 1 ... WHERE filename = filename *)
SelectName ==
    /\ pc = "select_name"
    /\ ops' = [ops EXCEPT ![future] = @ \cup {"select_name"}]
    /\ \E ok \in BOOLEAN :
         IF ok
           THEN IF FilenameInUse(catalog, hash_file(files[future])[2])
                  THEN /\ outcome' = [outcome EXCEPT ![future] = "name_conflict"]
                       /\ pc' = "loop"
                       /\ future' = 0
                       /\ UNCHANGED storeErr
                  ELSE /\ pc' = "update"
                       /\ UNCHANGED <<outcome, future, storeErr>>
           ELSE /\ Raise
                /\ UNCHANGED <<outcome, future>>
    /\ UNCHANGED <<directories, dirIdx, files, status, catalog, durable, cat0,
                   updates, commits, run, fifo,
                   connOpen, uniqueCol, peer>>

(* The rows of the table that the main process has written and not committed;
   the transaction of a process that has failed is rolled back *)
MainPending ==
    IF pc = "failed" THEN {} ELSE {h \in DOMAIN catalog : catalog[h] # durable[h]}

(* The UPDATE of the main process waits while the other process holds an
   uncommitted UPDATE of the same row or, under the UNIQUE constraint, of the
   same filename *)
WaitsForPeer(h, n) ==
    /\ peer.wrote
    /\ peer.hash \in DOMAIN durable
    /\ h \in DOMAIN catalog
    /\ (peer.hash = h \/ (uniqueCol /\ peer.name = n))

(* filename TEXT UNIQUE: the UPDATE of row h to n is refused when another row
   of the table cat has the filename n *)
UniqueViolation(cat, n, h) ==
    /\ uniqueCol
    /\ h \in DOMAIN cat
    /\ \E k \in DOMAIN cat : k # h /\ cat[k] = n

(* UPDATE ... SET filename WHERE hash; updates += 1; if updates % 100 == 0 *)
Update ==
    /\ pc = "update"
    /\ ~WaitsForPeer(hash_file(files[future])[1], hash_file(files[future])[2])
    /\ ops' = [ops EXCEPT ![future] = @ \cup {"update"}]
    /\ \E ok \in BOOLEAN :
         IF ok /\ ~UniqueViolation(catalog, hash_file(files[future])[2],
                                   hash_file(files[future])[1])
           THEN LET r == hash_file(files[future])
                IN  /\ catalog' = UpdateFilename(catalog, r[2], r[1])
                    /\ updates' = updates + 1
                    /\ outcome' = [outcome EXCEPT ![future] = "assigned"]
                    /\ IF AtBatchBoundary(updates + 1)
                         THEN pc' = "batch_commit" /\ UNCHANGED future
                         ELSE pc' = "loop" /\ future' = 0
                    /\ UNCHANGED storeErr
           ELSE /\ Raise
                /\ UNCHANGED <<catalog, updates, outcome, future>>
    /\ UNCHANGED <<directories, dirIdx, files, status, durable, cat0, commits, run, fifo,
                   connOpen, uniqueCol, peer>>

(* Mutant: the commit after the loop is lost *)
CommitInLoopOnly ==
    /\ \/ pc = "batch_commit"
       \/ pc = "loop" /\ AllConsumed
    /\ \E ok \in BOOLEAN :
         IF ok
           THEN /\ IF pc = "batch_commit"
                     THEN durable' = catalog /\ commits' = commits + 1 /\ pc' = "loop"
                     ELSE UNCHANGED <<durable, commits>> /\ pc' = "finished"
                /\ UNCHANGED storeErr
           ELSE /\ Raise
                /\ UNCHANGED <<durable, commits>>
    /\ future' = 0
    /\ UNCHANGED <<directories, dirIdx, files, status, catalog, cat0, updates,
                   outcome, ops, run, fifo,
                   connOpen, uniqueCol, peer>>

(* conn.commit(): inside the loop at a multiple of BATCH, and after the loop *)
Commit ==
    /\ \/ pc = "batch_commit"
       \/ pc = "loop" /\ AllConsumed
    /\ \E ok \in BOOLEAN :
         IF ok
           THEN /\ durable' = catalog
                /\ commits' = commits + 1
                /\ pc' = IF pc = "batch_commit" THEN "loop" ELSE "finished"
                /\ UNCHANGED storeErr
           ELSE /\ Raise
                /\ UNCHANGED <<durable, commits>>
    /\ future' = 0
    /\ UNCHANGED <<directories, dirIdx, files, status, catalog, cat0, updates,
                   outcome, ops, run, fifo,
                   connOpen, uniqueCol, peer>>

(* cur.close(); conn.close() after process_files has returned *)
Close ==
    /\ pc = "finished"
    /\ connOpen' = FALSE
    /\ pc' = "exited"
    /\ UNCHANGED <<directories, dirIdx, files, status, future, catalog, durable, cat0,
                   updates, commits, outcome, ops, storeErr, run, fifo, uniqueCol,
                   peer>>

(* The script is run again over the same files, on the table the first run
   left: conn = connect_db() *)
Rerun ==
    /\ pc = "exited"
    /\ run = 1
    /\ run' = 2
    /\ pc' = "start"
    /\ status' = [f \in FileIds |-> "new"]
    /\ outcome' = [f \in FileIds |-> "pending"]
    /\ ops' = [f \in FileIds |-> {}]
    /\ cat0' = durable
    /\ catalog' = durable
    /\ commits' = 0
    /\ updates' = 0
    /\ connOpen' = TRUE
    /\ UNCHANGED <<directories, dirIdx, files, future, durable, storeErr, fifo,
                   uniqueCol, peer>>

Next ==
    \/ Submit
    \/ \E f \in DOMAIN status : Worker(f)
    \/ \E f \in DOMAIN status : Consume(f)
    \/ SelectHash
    \/ SelectName
    \/ Update
    \/ Commit
    \/ Close
    \/ Rerun

Spec == Init /\ [][Next]_vars

(* The pool threads and the main thread keep running, and every store call
   returns or raises: some enabled step is eventually taken *)
SpecFair == Init /\ [][Next]_vars /\ WF_vars(Next)

-----------------------------------------------------------------------------
(* A second process runs the script on the same table, for one file of its
   own.  Both connections are at the database's default isolation: a SELECT
   sees what has been committed and the process's own writes; an UPDATE waits
   for the other process's uncommitted UPDATE of the same row, or of the same
   filename under the UNIQUE constraint, and then acts on the committed row. *)

PeerFiles == 2

PeerStep(p) == peer' = [peer EXCEPT !.pc = p]

PeerUnchanged ==
    UNCHANGED <<directories, dirIdx, files, status, pc, future, cat0, updates,
                commits, outcome, ops, storeErr, run, fifo, connOpen, uniqueCol>>

(* SELECT filename ... WHERE hash = file_hash, in the second process *)
PeerSelectHash ==
    /\ peer.pc = "select_hash"
    /\ IF HashHasFilename(SelectFilenameByHash(durable, peer.hash))
         THEN PeerStep("skipped")
         ELSE PeerStep("select_name")
    /\ UNCHANGED <<catalog, durable>>
    /\ PeerUnchanged

(* SELECT 1 ... WHERE filename = filename, in the second process *)
PeerSelectName ==
    /\ peer.pc = "select_name"
    /\ IF FilenameInUse(durable, peer.name)
         THEN PeerStep("skipped")
         ELSE PeerStep("update")
    /\ UNCHANGED <<catalog, durable>>
    /\ PeerUnchanged

(* The UPDATE of the second process waits for the main process's uncommitted
   UPDATE of the same row or, under the UNIQUE constraint, of the same filename *)
PeerWaits ==
    /\ peer.hash \in DOMAIN durable
    /\ \/ peer.hash \in MainPending
       \/ uniqueCol /\ \E k \in MainPending : catalog[k] = peer.name

(* UPDATE ... SET filename WHERE hash, in the second process: refused by the
   UNIQUE constraint (the exception ends that process), or pending *)
PeerUpdate ==
    /\ peer.pc = "update"
    /\ ~PeerWaits
    /\ IF UniqueViolation(durable, peer.name, peer.hash)
         THEN PeerStep("failed")
         ELSE peer' = [peer EXCEPT !.pc = "commit", !.wrote = TRUE]
    /\ UNCHANGED <<catalog, durable>>
    /\ PeerUnchanged

(* conn.commit() after the loop, in the second process: its UPDATE becomes
   part of the committed table, which the main process reads from then on *)
PeerCommit ==
    /\ peer.pc = "commit"
    /\ durable' = UpdateFilename(durable, peer.name, peer.hash)
    /\ catalog' = [h \in DOMAIN catalog |->
                     IF catalog[h] # durable[h] THEN catalog[h] ELSE durable'[h]]
    /\ peer' = [peer EXCEPT !.pc = "committed", !.wrote = FALSE]
    /\ PeerUnchanged

(* One or two readable files in the main process and one file in the second
   process, on any table, with or without the UNIQUE constraint on a filename
   column that existed before *)
InitTwo ==
    /\ directories = <<>>
    /\ dirIdx = 0
    /\ fifo = FALSE
    /\ uniqueCol \in BOOLEAN
    /\ \E h \in Hashes, n \in Names :
          peer = [pc |-> "select_hash", hash |-> h, name |-> n, wrote |-> FALSE]
    /\ \E fs \in FileLists, cat \in Catalogs :
          /\ Len(fs) \in 1..PeerFiles
          /\ \A i \in 1..Len(fs) : fs[i].readable
          /\ InitRun(fs, cat)

NextTwo ==
    \/ Next
    \/ PeerSelectHash
    \/ PeerSelectName
    \/ PeerUpdate
    \/ PeerCommit

SpecTwo == InitTwo /\ [][NextTwo]_vars

-----------------------------------------------------------------------------
(* collect_all_files and __main__ *)

(* [f for f in p.rglob("*") if f.is_file()]: root i holds one entry per
   element of its tree, TRUE for a regular file.  The file at entry j of root
   i has a content and a name of its own. *)
TreeFile(i, j) == File((i - 1) * MaxTree + j, (i - 1) * MaxTree + j, TRUE)

RglobFiles(i) ==
    LET tree == directories[i].tree
        idx == SelectSeq([j \in 1..Len(tree) |-> j], LAMBDA j : tree[j])
    IN  [k \in 1..Len(idx) |-> TreeFile(i, idx[k])]

(* Mutant: a missing root ends the loop (break for continue) *)
CollectDirBreak ==
    /\ pc = "collect"
    /\ dirIdx <= Len(directories)
    /\ IF ~directories[dirIdx].exists
         THEN UNCHANGED files /\ dirIdx' = Len(directories) + 1
         ELSE files' = files \o RglobFiles(dirIdx) /\ dirIdx' = dirIdx + 1
    /\ UNCHANGED <<directories, status, pc, future, catalog, durable, cat0,
                   updates, commits, outcome, ops, storeErr, run, fifo,
                   connOpen, uniqueCol, peer>>

(* One iteration of "for path in directories" *)
CollectDir ==
    /\ pc = "collect"
    /\ dirIdx <= Len(directories)
    /\ IF ~directories[dirIdx].exists
         THEN UNCHANGED files
         ELSE files' = files \o RglobFiles(dirIdx)
    /\ dirIdx' = dirIdx + 1
    /\ UNCHANGED <<directories, status, pc, future, catalog, durable, cat0,
                   updates, commits, outcome, ops, storeErr, run, fifo,
                   connOpen, uniqueCol, peer>>

(* return files; process_files(all_files) is entered *)
CollectReturn ==
    /\ pc = "collect"
    /\ dirIdx > Len(directories)
    /\ pc' = "start"
    /\ status' = [f \in FileIds |-> "new"]
    /\ outcome' = [f \in FileIds |-> "pending"]
    /\ ops' = [f \in FileIds |-> {}]
    /\ UNCHANGED <<directories, dirIdx, files, future, catalog, durable, cat0,
                   updates, commits, storeErr, run, fifo,
                   connOpen, uniqueCol, peer>>

Trees == UNION {[1..n -> BOOLEAN] : n \in 0..MaxTree}

Dirs ==
    {[exists |-> FALSE, tree |-> <<>>]} \cup {[exists |-> TRUE, tree |-> t] : t \in Trees}

DirLists == UNION {[1..n -> Dirs] : n \in 1..MaxDirs}

(* The script from collect_all_files on: every row has no filename yet *)
InitMain ==
    /\ directories \in DirLists
    /\ dirIdx = 1
    /\ fifo = TRUE
    /\ Alone
    /\ uniqueCol = TRUE
    /\ connOpen = TRUE
    /\ files = <<>>
    /\ status = <<>>
    /\ pc = "collect"
    /\ future = 0
    /\ catalog = [h \in 1..(MaxDirs * MaxTree) |-> NULL]
    /\ durable = catalog
    /\ cat0 = catalog
    /\ updates = 0
    /\ commits = 0
    /\ outcome = <<>>
    /\ ops = <<>>
    /\ storeErr = FALSE
    /\ run = 1

NextMain ==
    \/ CollectDir
    \/ CollectReturn
    \/ Next

SpecMain == InitMain /\ [][NextMain]_vars

-----------------------------------------------------------------------------
(* Batch scenarios: n files that reach the UPDATE, file i with hash i and name
   i and a row without filename.  With skips, every sixth file is one that the
   loop skips: unreadable, or its hash has a filename already, or its name is
   held by the row of another hash.  The files are pairwise interchangeable, so
   the submission order stands for every completion order. *)

BatchLen(n, skips) ==
    IF skips THEN CHOOSE l \in n..(2 * n + 6) : l - (l \div 6) = n ELSE n

SkipKind(i, skips) ==
    IF skips /\ i % 6 = 0 THEN 1 + ((i \div 6) % 3) ELSE 0

BatchFiles(n, skips) ==
    [i \in 1..BatchLen(n, skips) |-> File(i, i, SkipKind(i, skips) # 1)]

BatchCatalog(n, skips) ==
    LET l == BatchLen(n, skips)
        held == {i \in 1..l : SkipKind(i, skips) = 3}
    IN  [h \in (1..l) \cup {l + i : i \in held} |->
            IF h > l THEN h - l
            ELSE IF SkipKind(h, skips) = 2 THEN l + h
            ELSE NULL]

BatchSizes == {BATCH - 1, 2 * BATCH, BigRun}

InitBatch ==
    /\ directories = <<>>
    /\ dirIdx = 0
    /\ fifo = TRUE
    /\ Alone
    /\ uniqueCol = TRUE
    /\ \E n \in BatchSizes, skips \in BOOLEAN :
         InitRun(BatchFiles(n, skips), BatchCatalog(n, skips))

SpecBatch == InitBatch /\ [][Next]_vars

-----------------------------------------------------------------------------
(* Properties *)

HashOf(f) == files[f].hash
NameOf(f) == files[f].name
Readable == {f \in DOMAIN outcome : files[f].readable}

(* C1: starting from a table in which no two rows share a non-null filename,
   no two rows share a non-null filename in any state of a run, in the
   transaction's view and in the committed table. *)
C1_UniqueFilenames ==
    NoDup(catalog) /\ NoDup(durable)

(* Two files of different contents claimed one name: the first has it, the
   second was skipped by the lookup by filename. *)
C1_Witness ==
    \E f, g \in Readable :
        /\ outcome[f] = "assigned"
        /\ outcome[g] = "name_conflict"
        /\ NameOf(f) = NameOf(g)
        /\ HashOf(f) # HashOf(g)
        /\ HashOf(f) \in DOMAIN catalog
        /\ HashOf(g) \in DOMAIN catalog
        /\ catalog[HashOf(f)] = NameOf(f)
        /\ cat0[HashOf(f)] = NULL

(* C2: a row's filename is written at most once: a step never changes a
   filename that is set, and every change of a row takes its filename from
   NULL to a name. *)
C2_WrittenOnce ==
    [][/\ DOMAIN catalog' = DOMAIN catalog
       /\ \A h \in DOMAIN catalog :
            /\ catalog[h] # NULL => catalog'[h] = catalog[h]
            /\ catalog'[h] # catalog[h] => (catalog[h] = NULL /\ catalog'[h] # NULL)]_vars

(* A file met a row that an earlier file of the same run had named, under
   another name, and left it alone. *)
C2_Witness ==
    \E f, g \in Readable :
        /\ outcome[f] = "assigned"
        /\ outcome[g] = "dup_hash"
        /\ HashOf(f) = HashOf(g)
        /\ NameOf(f) # NameOf(g)
        /\ HashOf(f) \in DOMAIN catalog
        /\ cat0[HashOf(f)] = NULL
        /\ catalog[HashOf(f)] = NameOf(f)

(* C3 as stated: after a second run over the same files, on the table the
   first run left, the table is unchanged and the second run counted no
   assignment. *)
C3_Idempotent ==
    (run = 2 /\ pc = "finished") => (catalog = cat0 /\ durable = cat0 /\ updates = 0)

(* The loop body of process_files as a function of the table, and the table
   that consuming the files one after the other in submission order gives. *)
ReconcileOne(cat, file) ==
    LET r == hash_file(file)
    IN  IF r = None THEN cat
        ELSE IF HashHasFilename(SelectFilenameByHash(cat, r[1])) THEN cat
        ELSE IF FilenameInUse(cat, r[2]) THEN cat
        ELSE UpdateFilename(cat, r[2], r[1])

RECURSIVE InSubmissionOrder(_, _, _)
InSubmissionOrder(cat, fs, i) ==
    IF i > Len(fs) THEN cat
    ELSE InSubmissionOrder(ReconcileOne(cat, fs[i]), fs, i + 1)

DistinctNames == \A f, g \in DOMAIN files : f # g => NameOf(f) # NameOf(g)
DistinctHashes == \A f, g \in Readable : f # g => HashOf(f) # HashOf(g)

(* C4 as stated: when no two files have the same base name, every order of
   consumption ends a completed run with the table that the submission order
   gives. *)
C4_OrderIndependentNames ==
    (pc = "finished" /\ DistinctNames) =>
        catalog = InSubmissionOrder(cat0, files, 1)

(* C4 amended: when no two files have the same base name and no two files
   that were read have the same fingerprint, every order of consumption ends
   a completed run with the table that the submission order gives. *)
C4_OrderIndependent ==
    (pc = "finished" /\ DistinctNames /\ DistinctHashes) =>
        (catalog = InSubmissionOrder(cat0, files, 1) /\ durable = catalog)

(* A later file was assigned its name while an earlier one, with another
   name and content, is still to be consumed. *)
C4_Witness ==
    /\ DistinctNames
    /\ DistinctHashes
    /\ \E f, g \in Readable :
         /\ f < g
         /\ outcome[g] = "assigned"
         /\ HashOf(g) \in DOMAIN catalog
         /\ catalog[HashOf(g)] = NameOf(g)
         /\ status[f] # "consumed"
         /\ HashOf(f) \in DOMAIN catalog
         /\ catalog[HashOf(f)] = NULL
         /\ ~FilenameInUse(catalog, NameOf(f))

BoundTo(f) == HashOf(f) \in DOMAIN catalog /\ catalog[HashOf(f)] = NameOf(f)

SkippedWithoutWrite(f) ==
    /\ outcome[f] \in {"name_conflict", "dup_hash"}
    /\ "update" \notin ops[f]

SameNamePairs ==
    {p \in Readable \X Readable :
        p[1] < p[2] /\ NameOf(p[1]) = NameOf(p[2]) /\ HashOf(p[1]) # HashOf(p[2])}

(* C5 as stated: of two files with one base name and different fingerprints,
   exactly one fingerprint is bound to the name after the run, and the other
   file was skipped without a write. *)
C5_ExactlyOneBound ==
    pc = "finished" =>
        \A p \in SameNamePairs :
            \/ BoundTo(p[1]) /\ ~BoundTo(p[2]) /\ SkippedWithoutWrite(p[2])
            \/ BoundTo(p[2]) /\ ~BoundTo(p[1]) /\ SkippedWithoutWrite(p[1])

(* The pairs of C5 whose name is free and whose rows exist without a filename
   when the run starts, and whose name no third file that was read has *)
ContendingPairs ==
    {p \in SameNamePairs :
        /\ HashOf(p[1]) \in DOMAIN cat0 /\ cat0[HashOf(p[1])] = NULL
        /\ HashOf(p[2]) \in DOMAIN cat0 /\ cat0[HashOf(p[2])] = NULL
        /\ ~FilenameInUse(cat0, NameOf(p[1]))
        /\ \A f \in Readable \ {p[1], p[2]} : NameOf(f) # NameOf(p[1])}

(* C5 amended: of two files that were read, with one base name and different
   fingerprints, whose rows both exist without a filename and whose name no
   row holds when the run starts and no third file has, exactly one
   fingerprint is bound to the name after a completed run, and the other file
   was skipped (filename conflict or duplicate hash) without a write. *)
C5_OneOfContendingBound ==
    pc = "finished" =>
        \A p \in ContendingPairs :
            \/ BoundTo(p[1]) /\ ~BoundTo(p[2]) /\ SkippedWithoutWrite(p[2])
            \/ BoundTo(p[2]) /\ ~BoundTo(p[1]) /\ SkippedWithoutWrite(p[1])

(* The later file of a contending pair won the name and the earlier one was
   skipped as a conflict, next to a third file of another name. *)
C5_Witness ==
    /\ pc = "finished"
    /\ Cardinality(Readable) = 3
    /\ \E p \in ContendingPairs :
         BoundTo(p[2]) /\ outcome[p[1]] = "name_conflict"

(* C6: when the row of a file's hash has a filename already, the lookup by
   hash ends the file's processing: the table, the committed table and the
   counter are unchanged, and neither the lookup by filename nor the UPDATE
   is ever executed for the file. *)
C6_DuplicateHashSkip ==
    /\ [][(/\ pc = "select_hash"
           /\ HashOf(future) \in DOMAIN catalog
           /\ catalog[HashOf(future)] # NULL)
          => (/\ catalog' = catalog
              /\ durable' = durable
              /\ updates' = updates
              /\ commits' = commits
              /\ pc' \in {"select_hash", "loop", "failed"}
              /\ ops'[future] \subseteq {"select_hash"}
              /\ (pc' = "loop" => outcome'[future] = "dup_hash"))]_vars
    /\ [](\A f \in DOMAIN outcome :
            outcome[f] = "dup_hash" =>
                (ops[f] = {"select_hash"} /\ catalog[HashOf(f)] # NULL))

(* A file named otherwise than the row of its hash was skipped, the row being
   named before the run. *)
C6_Witness ==
    \E f \in Readable :
        /\ outcome[f] = "dup_hash"
        /\ cat0[HashOf(f)] \notin {NULL, NameOf(f)}
        /\ catalog = cat0
        /\ updates = 0
        /\ pc = "finished"

Assigned == {f \in DOMAIN outcome : outcome[f] = "assigned"}

(* C7: a run commits exactly when the counter reaches a multiple of BATCH and
   once more after the loop: with N the number of files that reached the
   UPDATE (the counter), updates \div BATCH commits are done while the loop
   runs and N \div BATCH + 1 when the run has finished, whatever files were
   skipped; 250 such files give 3 commits. *)
C7_BatchCommits ==
    /\ pc # "start" => updates = Cardinality(Assigned)
    /\ pc = "batch_commit" =>
          (updates > 0 /\ updates % BATCH = 0 /\ commits = (updates \div BATCH) - 1)
    /\ pc \in {"loop", "select_hash", "select_name", "update"} =>
          commits = updates \div BATCH
    /\ pc = "finished" => commits = (updates \div BATCH) + 1
    /\ (pc = "finished" /\ updates = 250) => commits = 3

(* The largest scenario has finished, with skipped files between the
   assigned ones, after a commit at every full batch and the final one. *)
C7_Witness ==
    /\ pc = "finished"
    /\ run = 1
    /\ updates = BigRun
    /\ Len(files) > BigRun
    /\ commits = (BigRun \div BATCH) + 1
    /\ commits >= 3

RECURSIVE CollectedUpTo(_)
CollectedUpTo(k) ==
    IF k = 0 THEN <<>>
    ELSE CollectedUpTo(k - 1) \o
            (IF directories[k].exists THEN RglobFiles(k) ELSE <<>>)

(* C8: a missing root adds no file and does not end the enumeration: the
   list holds, at every point, the files of the existing roots met so far,
   and the list returned holds those of every existing root; a completed run
   has processed each of them. *)
C8_MissingRootSkipped ==
    /\ pc = "collect" => files = CollectedUpTo(dirIdx - 1)
    /\ pc # "collect" => files = CollectedUpTo(Len(directories))
    /\ pc = "finished" =>
          \A i \in DOMAIN directories :
              directories[i].exists =>
                  \A j \in DOMAIN directories[i].tree :
                      directories[i].tree[j] =>
                          \E f \in DOMAIN files :
                              /\ files[f] = TreeFile(i, j)
                              /\ outcome[f] \in {"assigned", "dup_hash"}
                              /\ BoundTo(f)

(* A missing root between two existing ones: the files of both are bound. *)
C8_Witness ==
    /\ pc = "finished"
    /\ Len(directories) >= 3
    /\ directories[1].exists
    /\ ~directories[2].exists
    /\ directories[3].exists
    /\ \E f, g \in DOMAIN files :
         /\ files[f] = TreeFile(1, 1)
         /\ files[g] = TreeFile(3, 1)
         /\ BoundTo(f)
         /\ BoundTo(g)

Terminal == {"read_failed", "dup_hash", "name_conflict", "assigned"}

(* C9: a file whose read failed is skipped: no statement is ever executed
   for it; consuming it leaves the table, the committed table, the counter
   and the commits unchanged and the loop running; and a run with such files
   finishes with every file at a terminal outcome. *)
C9_ReadFailureSkipped ==
    /\ [](\A f \in DOMAIN outcome :
            ~files[f].readable =>
                (ops[f] = {} /\ outcome[f] \in {"pending", "read_failed"}))
    /\ [][\A f \in DOMAIN status :
            (~files[f].readable /\ status[f] = "done" /\ status'[f] = "consumed")
            => (/\ catalog' = catalog
                /\ durable' = durable
                /\ updates' = updates
                /\ commits' = commits
                /\ ops' = ops
                /\ pc' = "loop"
                /\ storeErr' = FALSE
                /\ outcome'[f] = "read_failed")]_vars
    /\ [](pc = "finished" => \A f \in DOMAIN outcome : outcome[f] \in Terminal)

(* A run finished after a failed read, the other files assigned. *)
C9_Witness ==
    /\ pc = "finished"
    /\ \E f \in DOMAIN outcome : ~files[f].readable /\ outcome[f] = "read_failed"
    /\ Cardinality(Assigned) = 2
    /\ \A f \in Assigned : BoundTo(f)

(* C10: once a statement or a commit has raised, process_files is left for
   good: no statement, no commit, no change of the table or of a file's
   outcome follows, and the run never reaches its normal end. *)
C10_StoreErrorFatal ==
    /\ [](storeErr => pc = "failed")
    /\ [][storeErr =>
            (/\ pc' = "failed"
             /\ ops' = ops
             /\ commits' = commits
             /\ catalog' = catalog
             /\ durable' = durable
             /\ updates' = updates
             /\ outcome' = outcome
             /\ run' = run)]_vars

(* A statement raised after an UPDATE that no commit followed, with a
   finished future that is never consumed. *)
C10_Witness ==
    /\ storeErr
    /\ pc = "failed"
    /\ catalog # durable
    /\ \E f \in DOMAIN status : status[f] = "done"
    /\ \E f \in DOMAIN status : "select_name" \in ops[f] /\ outcome[f] = "pending"

MidFile == {"select_hash", "select_name", "update", "batch_commit"}

InProgress == {f \in DOMAIN outcome : ops[f] # {} /\ outcome[f] = "pending"}

(* C11: the statements are executed by the main thread alone, one file after
   the other: a pool thread finishing hash_file changes nothing of the store
   or of the statements executed, a statement is executed only for the file
   the loop body holds, and no other file is then between its first
   statement and its outcome, in every interleaving of the pool threads. *)
C11_StoreSerialized ==
    /\ [](InProgress \subseteq {future})
    /\ [](pc \in MidFile => (future \in DOMAIN status /\ status[future] = "consumed"))
    /\ [][\A f \in DOMAIN status :
            /\ (status[f] = "submitted" /\ status'[f] = "done") =>
                  (/\ ops' = ops
                   /\ catalog' = catalog
                   /\ durable' = durable
                   /\ commits' = commits
                   /\ updates' = updates
                   /\ pc' = pc)
            /\ ops'[f] \ ops[f] # {} =>
                  (/\ f = future
                   /\ pc \in MidFile
                   /\ InProgress \subseteq {f}
                   /\ \A g \in DOMAIN status : status'[g] = status[g])]_vars

(* The loop body is between the two lookups of one file while the futures
   of two other files have finished and wait, untouched. *)
C11_Witness ==
    /\ pc = "select_name"
    /\ ops[future] = {"select_hash"}
    /\ Cardinality({g \in DOMAIN status : status[g] = "done" /\ ops[g] = {}}) >= 2

Changed == {h \in DOMAIN catalog : catalog[h] # cat0[h]}

(* C12 as stated: at every point of a run the counter is the number of rows
   whose filename the run has changed from NULL to a name. *)
C12_CounterCountsAssignments ==
    pc \notin {"start", "collect"} =>
        updates = Cardinality({h \in Changed : cat0[h] = NULL})

Pending == {h \in DOMAIN catalog : catalog[h] # durable[h]}

(* C13: when process_files has finished, a commit has followed the last
   UPDATE: the committed table is the table the transaction sees, nothing is
   pending, and at least one commit was done, also when the counter is a
   multiple of BATCH and when nothing was assigned. *)
C13_NothingPendingAtEnd ==
    pc = "finished" =>
        (durable = catalog /\ Pending = {} /\ commits >= 1)

(* A run of two full batches has finished with every assignment committed,
   and a rerun that assigned nothing has finished with its commit. *)
C13_Witness ==
    /\ pc = "finished"
    /\ run = 2
    /\ updates = 0
    /\ commits = 1
    /\ Cardinality({h \in DOMAIN durable : durable[h] # NULL}) >= 2 * BATCH
    /\ Cardinality(Changed) = 0

(* C14 as stated: whenever the run has aborted, at most BATCH - 1 assignments
   are pending, that is lost. *)
C14_AtMost99Lost ==
    pc = "failed" => Cardinality(Pending) <= BATCH - 1

(* C14 amended: after each file's processing step (the loop waits for the
   next future) fewer than BATCH assignments are pending; at every point at
   most BATCH are, BATCH only at the commit inside the loop or when that
   commit has failed; and the committed table changes only by a commit, to
   the table the transaction sees. *)
C14_PendingBounded ==
    /\ [](pc \in {"loop", "start"} => Cardinality(Pending) < BATCH)
    /\ [](Cardinality(Pending) <= BATCH)
    /\ [](Cardinality(Pending) = BATCH =>
            (pc = "batch_commit" \/ (pc = "failed" /\ updates % BATCH = 0)))
    /\ [][durable' # durable =>
            (durable' = catalog /\ commits' = commits + 1 /\ catalog' = catalog)]_vars

(* A statement raised with BATCH - 1 assignments pending after one commit. *)
C14_Witness ==
    /\ pc = "failed"
    /\ commits = 1
    /\ Cardinality(Pending) = BATCH - 1
    /\ Cardinality({h \in DOMAIN durable : durable[h] # cat0[h]}) = BATCH

(* C18: the run changes only the filename of rows that exist: no step adds
   or removes a row, and the UPDATE for a hash without a row leaves the table
   as it is, so that the name stays free for a later file. *)
C18_OnlyFilenameOfExistingRows ==
    /\ [][/\ DOMAIN catalog' = DOMAIN catalog
          /\ DOMAIN durable' = DOMAIN durable
          /\ DOMAIN cat0' = DOMAIN cat0
          /\ (pc = "update" /\ HashOf(future) \notin DOMAIN catalog) =>
                (catalog' = catalog /\ durable' = durable)]_vars
    /\ [](\A f \in Assigned :
            HashOf(f) \notin DOMAIN catalog =>
                (\A h \in DOMAIN catalog :
                    catalog[h] = NameOf(f) =>
                        (cat0[h] = NameOf(f) \/
                         \E g \in Assigned : HashOf(g) = h /\ NameOf(g) = NameOf(f))))

(* After the UPDATE for a file whose hash has no row, a later file of the
   same name got the name for its row. *)
C18_Witness ==
    \E f, g \in Assigned :
        /\ f # g
        /\ NameOf(f) = NameOf(g)
        /\ HashOf(f) \notin DOMAIN catalog
        /\ HashOf(g) \in DOMAIN catalog
        /\ cat0[HashOf(g)] = NULL
        /\ catalog[HashOf(g)] = NameOf(g)
        /\ "update" \in ops[f]

(* C15: unless a store call raises, a run over its finite list of files
   finishes; by then every file has been consumed and has one terminal
   outcome; and a file once consumed is not taken up again: its outcome,
   once set, and its statements, once it has an outcome, stay as they are. *)
C15_Terminates ==
    /\ <>(storeErr \/ pc = "finished")
    /\ [](pc = "finished" =>
            \A f \in DOMAIN status :
                status[f] = "consumed" /\ outcome[f] \in Terminal)
    /\ [][run' = run =>
            \A f \in DOMAIN status :
                /\ status[f] = "consumed" => status'[f] = "consumed"
                /\ outcome[f] \in Terminal =>
                      (outcome'[f] = outcome[f] /\ ops'[f] = ops[f] /\ future' # f)]_vars

(* A run of MaxFiles files has finished with files of three different
   terminal outcomes. *)
C15_Witness ==
    /\ pc = "finished"
    /\ Len(files) = MaxFiles
    /\ Cardinality({outcome[f] : f \in DOMAIN outcome}) >= 3

(* C17: whenever a run has ended, by the normal return of process_files or by
   a store error raised inside it, the cursor and the connection have been
   closed. *)
C17_ConnectionReleased ==
    pc \in {"exited", "failed"} => ~connOpen

(* C16: with a second process running the script on the same table, under the
   UNIQUE constraint, when both runs have ended without an exception the
   committed table has no filename on two rows, no row that was named when
   the runs started has another filename, and every filename that one of the
   two runs assigned and committed is still on its row. *)
C16_NoSilentCorruption ==
    (/\ uniqueCol
     /\ run = 1
     /\ pc = "exited"
     /\ peer.pc \in {"skipped", "committed"}) =>
        /\ NoDup(durable)
        /\ \A h \in DOMAIN durable : cat0[h] # NULL => durable[h] = cat0[h]
        /\ (peer.pc = "committed" /\ peer.hash \in DOMAIN durable) =>
              durable[peer.hash] = peer.name
        /\ \A f \in DOMAIN outcome :
              (outcome[f] = "assigned" /\ HashOf(f) \in DOMAIN durable) =>
                  durable[HashOf(f)] = NameOf(f)

====
